---- MODULE Spec2Model ----
(***************************************************************************)
(* Model of the nutrition-tracker web service.                             *)
(*                                                                         *)
(* The repository holds several variants of the same service.  The model   *)
(* carries the variant as part of the state:                               *)
(*   "off"  - the Open Food Facts service, src/server.js lines 1-312       *)
(*   "usda" - the USDA service, src/server.js lines 314-669                *)
(*                                                                         *)
(* Numbers.  JavaScript numbers are modelled as exact decimals: an integer *)
(* counts thousandths (89 kcal is 89000, 1.1 g is 1100).  Binary floating  *)
(* point representation error is not modelled.  Quantities are whole       *)
(* numbers.  A scale factor is an exact fraction num/den.                  *)
(*                                                                         *)
(* Spec is the service handling POST /api/food-log requests; each handler  *)
(* advances from one await to the next.  SpecNormalize runs the nutrition  *)
(* arithmetic alone on a wider set of units, quantities and products.      *)
(***************************************************************************)
EXTENDS Integers, Sequences, FiniteSets, TLC

(***************************************************************************)
(* JavaScript values: numbers, strings, undefined, null and NaN.           *)
(***************************************************************************)
Num(v) == [t |-> "num", n |-> v, s |-> ""]
Str(x) == [t |-> "str", n |-> 0, s |-> x]
Undefined == [t |-> "undefined", n |-> 0, s |-> ""]
Null == [t |-> "null", n |-> 0, s |-> ""]
NaN == [t |-> "nan", n |-> 0, s |-> ""]

\* ToBoolean: what `!v` and `a || b` test.
Truthy(v) ==
  CASE v.t = "num" -> v.n # 0
    [] v.t = "str" -> v.s # ""
    [] OTHER -> FALSE

\* a || b
Or(a, b) == IF Truthy(a) THEN a ELSE b

(***************************************************************************)
(* Strings: String.prototype.toLowerCase and String.prototype.includes.    *)
(***************************************************************************)
LowerChar(c) ==
  CASE c = "G" -> "g" [] c = "K" -> "k" [] c = "L" -> "l" [] c = "M" -> "m"
    [] c = "O" -> "o" [] c = "Z" -> "z" [] c = "B" -> "b" [] c = "P" -> "p"
    [] c = "U" -> "u" [] c = "N" -> "n" [] c = "D" -> "d" [] c = "S" -> "s"
    [] c = "A" -> "a" [] c = "E" -> "e" [] c = "I" -> "i" [] c = "R" -> "r"
    [] c = "T" -> "t" [] c = "C" -> "c" [] c = "F" -> "f"
    [] OTHER -> c

RECURSIVE toLowerCase(_)
toLowerCase(str) ==
  IF str = "" THEN ""
  ELSE LowerChar(SubSeq(str, 1, 1)) \o toLowerCase(SubSeq(str, 2, Len(str)))

includes(str, sub) ==
  \E i \in 1..(Len(str) - Len(sub) + 1) : SubSeq(str, i, i + Len(sub) - 1) = sub

(***************************************************************************)
(* parseFloat: the longest numeric prefix of a string, NaN if there is     *)
(* none; a number is returned as it is.  Only whole numbers occur.         *)
(***************************************************************************)
DigitVal(c) ==
  CASE c = "0" -> 0 [] c = "1" -> 1 [] c = "2" -> 2 [] c = "3" -> 3
    [] c = "4" -> 4 [] c = "5" -> 5 [] c = "6" -> 6 [] c = "7" -> 7
    [] c = "8" -> 8 [] c = "9" -> 9 [] OTHER -> -1

RECURSIVE ParseDigits(_, _, _)
ParseDigits(str, acc, seen) ==
  IF str = "" \/ DigitVal(SubSeq(str, 1, 1)) < 0
  THEN IF seen THEN Num(acc) ELSE NaN
  ELSE ParseDigits(SubSeq(str, 2, Len(str)),
                   10 * acc + DigitVal(SubSeq(str, 1, 1)), TRUE)

parseFloat(v) ==
  CASE v.t = "num" -> v
    [] v.t = "str" ->
         IF v.s # "" /\ SubSeq(v.s, 1, 1) = "-"
         THEN LET p == ParseDigits(SubSeq(v.s, 2, Len(v.s)), 0, FALSE)
              IN IF p.t = "num" THEN Num(0 - p.n) ELSE NaN
         ELSE ParseDigits(v.s, 0, FALSE)
    [] OTHER -> NaN

(***************************************************************************)
(* Exact arithmetic on thousandths.                                        *)
(***************************************************************************)
Abs(x) == IF x < 0 THEN 0 - x ELSE x

RECURSIVE GCD(_, _)
GCD(a, b) == IF b = 0 THEN a ELSE GCD(b, a % b)

\* num/den rounded to the nearest integer, ties away from zero (den > 0)
RoundHalfAway(num, den) ==
  LET q == (Abs(num) \div den) + (IF 2 * (Abs(num) % den) >= den THEN 1 ELSE 0)
  IN IF num < 0 THEN 0 - q ELSE q

\* num/den rounded to the nearest integer, ties towards +infinity: Math.round
MathRound(num, den) ==
  (num \div den) + (IF 2 * (num % den) >= den THEN 1 ELSE 0)

\* The fraction (milli * num) / (unit * den) in lowest terms, computed
\* without forming the full product.
ScaledFraction(milli, num, den, unit) ==
  LET d0 == unit * den
      g1 == GCD(Abs(milli), d0)
      m1 == milli \div g1
      d1 == d0 \div g1
      g2 == GCD(Abs(num), d1)
      n2 == num \div g2
      d2 == d1 \div g2
  IN [num |-> m1 * n2, den |-> d2]


\* toFixed() without its argument: no decimals
toFixed0(milli, num, den) ==
  LET f == ScaledFraction(milli, num, den, 1000)
  IN 1000 * RoundHalfAway(f.num, f.den)

\* Number.prototype.toFixed(2) followed by parseFloat, applied to the
\* product milli * num/den: two decimals, ties away from zero.
toFixed2(milli, num, den) ==
  LET f == ScaledFraction(milli, num, den, 10)
  IN 10 * RoundHalfAway(f.num, f.den)

\* Math.round(x * 10) / 10 applied to the product milli * num/den.
Round1(milli, num, den) ==
  LET f == ScaledFraction(milli, num, den, 100)
  IN 100 * MathRound(f.num, f.den)

(***************************************************************************)
(* The lookup collaborator's answers.                                      *)
(* A nutriments object is a set of [k, v] pairs with distinct keys.        *)
(***************************************************************************)
KV(key, val) == [k |-> key, v |-> val]

\* nutriments[key]
Get(map, key) ==
  IF \E p \in map : p.k = key
  THEN (CHOOSE p \in map : p.k = key).v
  ELSE Undefined

\* a product of the search response; hasNutriments = FALSE when the
\* product has no nutriments member at all
Product(name, has, map) ==
  [product_name |-> name, hasNutriments |-> has, nutriments |-> map]

OzGramsHundredths == 2835
LbGramsThousandths == 453592

NullNutrition ==
  [calories |-> Null, protein |-> Null, carbs |-> Null, fat |-> Null]

(***************************************************************************)
(* getNutritionData of the Open Food Facts service.                        *)
(***************************************************************************)
\* a selection that takes the top match whatever it holds
SelectFirst(products) == IF Len(products) = 0 THEN 0 ELSE 1

\* the first product that has nutrition data (0 if there is none)
SelectIndex(products) ==
  LET ok == {i \in 1..Len(products) :
               /\ products[i].hasNutriments
               /\ Cardinality(products[i].nutriments) > 0}
  IN IF ok = {} THEN 0 ELSE CHOOSE i \in ok : \A j \in ok : i <= j

nutritionPer100g(nutriments) ==
  [calories |-> Or(Get(nutriments, "energy-kcal_100g"),
                   Or(Get(nutriments, "energy-kcal"), Num(0))),
   protein  |-> Or(Get(nutriments, "proteins_100g"),
                   Or(Get(nutriments, "proteins"), Num(0))),
   carbs    |-> Or(Get(nutriments, "carbohydrates_100g"),
                   Or(Get(nutriments, "carbohydrates"), Num(0))),
   fat      |-> Or(Get(nutriments, "fat_100g"),
                   Or(Get(nutriments, "fat"), Num(0)))]

\* const qty = parseFloat(quantity) || 0
Qty(quantity) ==
  LET p == parseFloat(quantity)
  IN IF Truthy(p) THEN p.n ELSE 0

\* the chain with a gram branch that forgets the division by 100
UnitMultiplierPerGram(unit, qty) ==
  LET u == toLowerCase(unit)
  IN IF includes(u, "g") \/ u = "grams"
     THEN [num |-> qty, den |-> 1]
     ELSE IF includes(u, "oz") \/ u = "ounces"
     THEN [num |-> qty * OzGramsHundredths, den |-> 100 * 100]
     ELSE IF includes(u, "lb") \/ u = "pounds"
     THEN [num |-> qty * LbGramsThousandths, den |-> 1000 * 100]
     ELSE [num |-> qty, den |-> 1]

\* the if / else-if chain that sets multiplier, as a fraction
UnitMultiplier(unit, qty) ==
  LET u == toLowerCase(unit)
  IN IF includes(u, "g") \/ u = "grams"
     THEN [num |-> qty, den |-> 100]
     ELSE IF includes(u, "kg") \/ u = "kilograms"
     THEN [num |-> qty * 1000, den |-> 100]
     ELSE IF includes(u, "oz") \/ u = "ounces"
     THEN [num |-> qty * OzGramsHundredths, den |-> 100 * 100]
     ELSE IF includes(u, "lb") \/ u = "pounds"
     THEN [num |-> qty * LbGramsThousandths, den |-> 1000 * 100]
     ELSE [num |-> qty, den |-> 1]

\* TRUE iff str is a whole-number numeral: an optional "-" and digits
IsNumeral(str) ==
  LET d == IF str # "" /\ SubSeq(str, 1, 1) = "-"
           THEN SubSeq(str, 2, Len(str)) ELSE str
  IN d # "" /\ \A i \in 1..Len(d) : DigitVal(SubSeq(d, i, i)) >= 0

\* ToNumber, the coercion `*` and `/` apply to an operand
ToNumber(v) ==
  CASE v.t = "num" -> v
    [] v.t = "str" -> IF v.s = "" THEN Num(0)
                      ELSE IF IsNumeral(v.s) THEN parseFloat(v) ELSE NaN
    [] v.t = "null" -> Num(0)
    [] OTHER -> NaN

\* parseFloat((per100 * multiplier).toFixed(2))
ScaleField(per100, m) ==
  LET x == ToNumber(per100)
  IN IF x.t = "num" THEN Num(toFixed2(x.n, m.num, m.den)) ELSE NaN

finalNutrition(per100g, m) ==
  [calories |-> ScaleField(per100g.calories, m),
   protein  |-> ScaleField(per100g.protein, m),
   carbs    |-> ScaleField(per100g.carbs, m),
   fat      |-> ScaleField(per100g.fat, m)]

\* getNutritionData answering zeros, not nulls, when the search found nothing
getNutritionDataZeros(resp, quantity, unit) ==
  IF resp.kind # "ok" THEN NullNutrition
  ELSE IF ~resp.hasProducts \/ Len(resp.products) = 0
  THEN [calories |-> Num(0), protein |-> Num(0), carbs |-> Num(0),
        fat |-> Num(0)]
  ELSE LET i == SelectIndex(resp.products)
       IN IF i = 0 THEN NullNutrition
          ELSE IF unit.t # "str" THEN NullNutrition
          ELSE finalNutrition(nutritionPer100g(resp.products[i].nutriments),
                              UnitMultiplier(unit.s, Qty(quantity)))

\* resp: [kind, hasProducts, products]; kind "ok" is a fulfilled axios.get,
\* "error" and "timeout" are rejections.  A unit that is not a string makes
\* unit.toLowerCase throw inside the try block.
getNutritionData(resp, quantity, unit) ==
  IF resp.kind # "ok" THEN NullNutrition
  ELSE IF ~resp.hasProducts \/ Len(resp.products) = 0 THEN NullNutrition
  ELSE LET i == SelectIndex(resp.products)
       IN IF i = 0 THEN NullNutrition
          ELSE IF unit.t # "str" THEN NullNutrition
          ELSE finalNutrition(nutritionPer100g(resp.products[i].nutriments),
                              UnitMultiplier(unit.s, Qty(quantity)))

(***************************************************************************)
(* getNutritionData, findNutrient and getDefaultNutrition of the USDA      *)
(* service.                                                                *)
(***************************************************************************)
UsdaFields ==
  {"calories", "protein", "carbs", "fat", "fiber", "sugar", "sodium"}

Vec7(c, p, cb, f, fi, su, so) ==
  [calories |-> Num(c), protein |-> Num(p), carbs |-> Num(cb), fat |-> Num(f),
   fiber |-> Num(fi), sugar |-> Num(su), sodium |-> Num(so)]

getDefaultNutrition(foodName) ==
  LET lowerFoodName == toLowerCase(foodName)
  IN IF includes(lowerFoodName, "apple")
     THEN Vec7(52000, 300, 14000, 200, 2400, 10000, 1000)
     ELSE IF includes(lowerFoodName, "banana")
     THEN Vec7(89000, 1100, 23000, 300, 2600, 12000, 1000)
     ELSE IF includes(lowerFoodName, "rice")
     THEN Vec7(130000, 2700, 28000, 300, 400, 100, 5000)
     ELSE IF includes(lowerFoodName, "chicken")
     THEN Vec7(165000, 31000, 0, 3600, 0, 0, 74000)
     ELSE IF includes(lowerFoodName, "bread")
     THEN Vec7(265000, 9000, 49000, 3200, 2800, 5000, 491000)
     ELSE Vec7(100000, 3000, 15000, 2000, 1000, 5000, 50000)

\* nutrients: a sequence of [nutrientName, value]
findNutrient(nutrients, name) ==
  LET hit == {i \in 1..Len(nutrients) :
                /\ nutrients[i].nutrientName # ""
                /\ includes(nutrients[i].nutrientName, name)}
  IN IF hit = {} THEN Null
     ELSE nutrients[CHOOSE i \in hit : \A j \in hit : i <= j].value

\* resp: [kind, foods]; each food is its foodNutrients sequence
getNutritionDataUsda(hasKey, resp, foodName) ==
  IF ~hasKey THEN getDefaultNutrition(foodName)
  ELSE IF resp.kind = "ok" /\ Len(resp.foods) > 0
  THEN LET nutrients == resp.foods[1]
       IN [calories |-> Or(findNutrient(nutrients, "Energy"), Num(50000)),
           protein  |-> Or(findNutrient(nutrients, "Protein"), Num(2000)),
           carbs    |-> Or(findNutrient(nutrients, "Carbohydrate"), Num(10000)),
           fat      |-> Or(findNutrient(nutrients, "Total lipid"), Num(1000)),
           fiber    |-> Or(findNutrient(nutrients, "Fiber"), Num(1000)),
           sugar    |-> Or(findNutrient(nutrients, "Sugars"), Num(2000)),
           sodium   |-> Or(findNutrient(nutrients, "Sodium"), Num(50000))]
  ELSE getDefaultNutrition(foodName)

\* Math.round(per100 * multiplier * 10) / 10 with multiplier = quantity / 100
RoundField(per100, quantity) ==
  LET x == ToNumber(per100)
      q == ToNumber(quantity)
  IN IF x.t = "num" /\ q.t = "num" THEN Num(Round1(x.n, q.n, 100)) ELSE NaN

calculatedNutrition(nutritionData, quantity) ==
  [f \in UsdaFields |-> RoundField(nutritionData[f], quantity)]

(***************************************************************************)
(* State.                                                                  *)
(***************************************************************************)
VARIABLES
  variant,     \* which service is running: "off" or "usda"
  apiKey,      \* process.env.USDA_API_KEY is set
  food_logs,   \* the rows of table food_logs, in insertion order
  nextId,      \* the next AUTOINCREMENT id of food_logs
  reqs,        \* the POST /api/food-log handlers in flight, by slot
  lastResp,    \* the HTTP response sent last
  calc,        \* input and result of one run of the nutrition arithmetic
  now,         \* the server clock: the UTC date and the second
  summary,     \* the GET /api/daily-summary handler in flight
  lastRead,    \* the response sent last to a GET request
  purge        \* the runs of clearFoodLogs in flight and the last one settled

vars ==
  <<variant, apiKey, food_logs, nextId, reqs, lastResp, calc, now, summary,
    lastRead, purge>>

MaxInflight == 2
MaxId == 2

Slots == 1..MaxInflight

\* request bodies
BodyFor(name, quantity, unit, user) ==
  [food_name |-> name, quantity |-> quantity, unit |-> unit, user_id |-> user]

Body(name, quantity, unit) == BodyFor(name, quantity, unit, Undefined)

NoBody == Body(Undefined, Undefined, Undefined)

\* request bodies: a banana in grams with each kind of quantity, and bodies
\* that lack one field or all of them
Bodies ==
  {Body(Str("banana"), q, Str("g")) :
     q \in {Undefined, Num(0), Num(0 - 5), Str("abc"), Num(120)}}
    \cup {Body(Undefined, Num(120), Str("g")),
          Body(Str("banana"), Num(120), Undefined),
          Body(Undefined, Undefined, Undefined)}

\* candidate products of the Open Food Facts search
Banana ==
  Product("Banana", TRUE,
          {KV("energy-kcal_100g", Num(89000)), KV("proteins_100g", Num(1100)),
           KV("carbohydrates_100g", Num(23000)), KV("fat_100g", Num(300))})

NoData == Product("Banana chips", TRUE, {})

NoNutriments == Product("Banana bread", FALSE, {})

\* a product whose protein is reported as text
Traces ==
  Product("Banana drink", TRUE,
          {KV("energy-kcal_100g", Num(89000)), KV("proteins_100g", Str("traces"))})

Rejected(kind) == [kind |-> kind, hasProducts |-> FALSE, products |-> <<>>]
Found(products) == [kind |-> "ok", hasProducts |-> TRUE, products |-> products]
NoProducts == [kind |-> "ok", hasProducts |-> FALSE, products |-> <<>>]

NoLookup == [kind |-> "none", hasProducts |-> FALSE, products |-> <<>>]

OffResponses ==
  {Rejected("error"), Rejected("timeout"), NoProducts, Found(<<>>),
   Found(<<NoNutriments>>), Found(<<Banana>>),
   Found(<<Traces>>)}

\* answers of the USDA search: [kind, foods]
FoodNutrient(name, val) == [nutrientName |-> name, value |-> val]

UsdaBanana ==
  <<FoodNutrient("Energy", Num(89000)), FoodNutrient("Protein", Num(1100)),
    FoodNutrient("Carbohydrate, by difference", Num(23000)),
    FoodNutrient("Total lipid (fat)", Num(300))>>

UsdaResponses ==
  {[kind |-> "error", foods |-> <<>>], [kind |-> "ok", foods |-> <<>>],
   [kind |-> "ok", foods |-> <<UsdaBanana>>]}

Idle ==
  [pc |-> "idle", body |-> NoBody, lookup |-> "none", nutrition |-> <<>>,
   lookups |-> 0, inserts |-> 0, resolved |-> Undefined]

\* db is the outcome of the INSERT: "none" (not issued), "ok" or "error"
NoResp ==
  [status |-> 0, error |-> "", fields |-> {}, id |-> 0, nutrition |-> <<>>,
   body |-> NoBody, lookup |-> "none", lookups |-> 0, inserts |-> 0,
   resolved |-> Undefined,
   db |-> "none"]

NoFraction == [num |-> 0, den |-> 1]

\* per100g, multiplier and out are the values of nutritionPer100g (USDA:
\* nutritionData), multiplier and finalNutrition (calculatedNutrition)
\* multiplier2 and twice are multiplier and finalNutrition of a second run
\* on the doubled quantity
NoCalc ==
  [resp |-> NoLookup, body |-> NoBody, done |-> FALSE, per100g |-> <<>>,
   multiplier |-> NoFraction, out |-> <<>>,
   multiplier2 |-> NoFraction, twice |-> <<>>, selected |-> 0]

\* the clock at start: day 1, second 0
Midnight1 == [day |-> 1, sec |-> 0]

NoQuery == [date |-> Undefined, user_id |-> Undefined, limit |-> Undefined]

NoTotals == <<>>

\* no daily summary in flight
NoSummary ==
  [pc |-> "idle", query |-> NoQuery, today |-> 0, target |-> 0,
   totals |-> NoTotals, count |-> 0, matched |-> <<>>, seen |-> <<>>]

\* kind is "none", "summary", "list" or "health"; today is the date of
\* the clock when the handler started; seen and matched are the table as
\* the first query saw it and the rows it matched, table is the table as
\* the list query saw it
NoRead ==
  [kind |-> "none", status |-> 0, query |-> NoQuery, today |-> 0,
   totals |-> NoTotals, count |-> 0, hasList |-> FALSE, items |-> <<>>,
   seen |-> <<>>, matched |-> <<>>, table |-> <<>>, health |-> <<>>,
   route |-> <<>>]

\* manual and cron count the runs of clearFoodLogs in flight that POST
\* /api/clear-logs and the scheduler started; by, status and rowsDeleted
\* tell how the last run ended
NoPurge ==
  [manual |-> 0, cron |-> 0, by |-> "none", status |-> 0, rowsDeleted |-> 0]

Init ==
  /\ purge = NoPurge
  /\ now = Midnight1
  /\ summary = NoSummary
  /\ lastRead = NoRead
  /\ variant \in {"off", "usda"}
  /\ apiKey \in (IF variant = "usda" THEN BOOLEAN ELSE {FALSE})
  /\ food_logs = <<>>
  /\ nextId = 1
  /\ reqs = [r \in Slots |-> Idle]
  /\ lastResp = NoResp
  /\ calc = NoCalc

InFlight == {r \in Slots : reqs[r].pc # "idle"}

\* a validation that forgets the unit
InvalidNoUnit(body) ==
  ~Truthy(body.food_name) \/ ~Truthy(body.quantity)

\* if (!food_name || !quantity || !unit)
Invalid(body) ==
  ~Truthy(body.food_name) \/ ~Truthy(body.quantity) \/ ~Truthy(body.unit)

\* the 400 answer of each service
ValidationResponse(body) ==
  IF variant = "off"
  THEN [NoResp EXCEPT !.status = 400, !.error = "VALIDATION_ERROR",
                      !.fields = {"food_name", "quantity", "unit"},
                      !.body = body]
  ELSE [NoResp EXCEPT !.status = 400,
                      !.error = "Missing required fields: food_name, quantity, unit",
                      !.body = body]

(***************************************************************************)
(* POST /api/food-log, up to its first await.                              *)
(***************************************************************************)
PostFoodLog(r, body) ==
  /\ reqs[r].pc = "idle"
  /\ \A r2 \in Slots : r2 < r => reqs[r2].pc # "idle"
  /\ IF Invalid(body)
     THEN /\ lastResp' = ValidationResponse(body)
          /\ UNCHANGED reqs
     ELSE /\ nextId + Cardinality(InFlight) <= MaxId
          /\ IF variant = "usda" /\ ~apiKey
             THEN reqs' = [reqs EXCEPT ![r] =
                    [pc |-> "insert", body |-> body, lookup |-> "none",
                     nutrition |-> calculatedNutrition(
                        getNutritionDataUsda(FALSE, NoLookup, body.food_name.s),
                        body.quantity),
                     lookups |-> 0, inserts |-> 1,
                     resolved |-> Undefined]]
             ELSE reqs' = [reqs EXCEPT ![r] =
                    [pc |-> "lookup", body |-> body, lookup |-> "none",
                     nutrition |-> <<>>, lookups |-> 1, inserts |-> 0,
                     resolved |-> Undefined]]
          /\ UNCHANGED lastResp
  /\ UNCHANGED <<variant, apiKey, food_logs, nextId, calc,
               now, summary, lastRead, purge>>

(***************************************************************************)
(* The search request settles; the handler runs on to the INSERT.          *)
(***************************************************************************)
Outcome(resp) ==
  IF resp.kind # "ok" THEN resp.kind
  ELSE IF variant = "off"
  THEN (IF ~resp.hasProducts \/ Len(resp.products) = 0 THEN "empty"
        ELSE IF SelectIndex(resp.products) = 0 THEN "nodata" ELSE "found")
  ELSE (IF Len(resp.foods) = 0 THEN "empty" ELSE "found")

\* selectedProduct.product_name, the name the search resolved the food to
ResolvedName(resp) ==
  IF variant = "off" /\ Outcome(resp) = "found"
  THEN Str(resp.products[SelectIndex(resp.products)].product_name)
  ELSE Undefined

LookupSettles(r, resp) ==
  /\ reqs[r].pc = "lookup"
  /\ LET b == reqs[r].body
         nutrition ==
           IF variant = "off"
           THEN getNutritionData(resp, b.quantity, b.unit)
           ELSE calculatedNutrition(
                  getNutritionDataUsda(TRUE, resp, b.food_name.s), b.quantity)
     IN reqs' = [reqs EXCEPT ![r] =
                   [@ EXCEPT !.pc = "insert", !.lookup = Outcome(resp),
                             !.nutrition = nutrition, !.inserts = 1,
                             !.resolved = ResolvedName(resp)]]
  /\ UNCHANGED <<variant, apiKey, food_logs, nextId, lastResp, calc,
               now, summary, lastRead, purge>>

(***************************************************************************)
(* The INSERT completes (runExecute / db.run callback) and the response is *)
(* sent.                                                                   *)
(***************************************************************************)
\* the row holds the values bound to the INSERT statement
\* and the column defaults: timestamp CURRENT_TIMESTAMP, date DATE('now')
Row(id, body, nutrition) ==
  [id |-> id,
   user_id |-> IF variant = "off" THEN Null
               ELSE IF body.user_id.t = "undefined" THEN Num(1)
               ELSE body.user_id,
   food_name |-> body.food_name, quantity |-> body.quantity,
   unit |-> body.unit, nutrition |-> nutrition,
   timestamp |-> now.sec, date |-> now.day]

\* an INSERT that overwrites the newest row
InsertOrReplace(rows, row) ==
  IF rows = <<>> THEN <<row>> ELSE [rows EXCEPT ![Len(rows)] = row]

\* INSERT INTO food_logs
Insert(rows, row) == Append(rows, row)

\* a failed INSERT answered as if the row had been written
InsertFailureAccepted(base) ==
  [base EXCEPT !.status = 201, !.db = "error"]

\* the answer to a failed INSERT
InsertFailure(base) ==
  [base EXCEPT !.status = 500, !.db = "error",
               !.error = IF variant = "off" THEN "DB_ERROR"
                         ELSE "Failed to log food item"]

InsertCompletes(r, ok) ==
  /\ reqs[r].pc = "insert"
  /\ LET q == reqs[r]
         base == [NoResp EXCEPT !.body = q.body, !.lookup = q.lookup,
                                !.resolved = q.resolved,
                                !.lookups = q.lookups, !.inserts = q.inserts]
     IN IF ok
        THEN /\ food_logs' = Insert(food_logs, Row(nextId, q.body, q.nutrition))
             /\ nextId' = nextId + 1
             /\ lastResp' = [base EXCEPT !.status = 201, !.id = nextId,
                                         !.nutrition = q.nutrition,
                                         !.db = "ok"]
        ELSE /\ UNCHANGED <<food_logs, nextId>>
             /\ lastResp' = InsertFailure(base)
  /\ reqs' = [reqs EXCEPT ![r] = Idle]
  /\ UNCHANGED <<variant, apiKey, calc,
               now, summary, lastRead, purge>>

Next ==
  \/ \E r \in Slots, body \in Bodies : PostFoodLog(r, body)
  \/ \E r \in Slots :
       \E resp \in (IF variant = "off" THEN OffResponses ELSE UsdaResponses) :
         LookupSettles(r, resp)
  \/ \E r \in Slots, ok \in BOOLEAN : InsertCompletes(r, ok)

Spec == Init /\ [][Next]_vars

(***************************************************************************)
(* The nutrition arithmetic on its own: one run of the code between the    *)
(* selection of a product and the INSERT, on inputs drawn from bounded     *)
(* sets.                                                                   *)
(***************************************************************************)
Units ==
  {"g", "G", "gram", "grams", "Grams", "kg", "KG", "kilogram", "kilograms",
   "oz", "ounce", "ounces", "fl ounce", "lb", "lbs", "pound", "Pounds",
   "l", "L", "liter", "litre", "ml", "piece", "serving", "cup", "slice",
   "tablespoon"}

Quantities == {1, 2, 3, 100, 120}

\* a product whose values carry three decimals
Precise ==
  Product("Plantain", TRUE,
          {KV("energy-kcal", Num(12005)), KV("proteins", Num(1234)),
           KV("carbohydrates", Num(3185)), KV("fat", Num(375))})

CalcFoods == {"banana", "Brown Rice", "tofu"}

InitNormalize ==
  /\ purge = NoPurge
  /\ now = Midnight1
  /\ summary = NoSummary
  /\ lastRead = NoRead
  /\ variant \in {"off", "usda"}
  /\ apiKey = FALSE
  /\ food_logs = <<>>
  /\ nextId = 1
  /\ reqs = [r \in Slots |-> Idle]
  /\ lastResp = NoResp
  /\ IF variant = "off"
     THEN calc \in
            {[NoCalc EXCEPT !.resp = Found(<<NoData, p>>),
                            !.body = Body(Str("banana"), Num(q), Str(u))] :
               p \in {Banana, Precise}, q \in Quantities, u \in Units}
     ELSE calc \in
            {[NoCalc EXCEPT !.body = Body(Str(n), Num(q), Str(u))] :
               n \in CalcFoods, q \in Quantities, u \in Units}

\* getNutritionData of the Open Food Facts service on a found product
Normalize ==
  /\ variant = "off"
  /\ ~calc.done
  /\ LET b == calc.body
         i == SelectIndex(calc.resp.products)
     IN calc' = [calc EXCEPT
                   !.done = TRUE,
                   !.per100g = nutritionPer100g(calc.resp.products[i].nutriments),
                   !.multiplier = UnitMultiplier(b.unit.s, Qty(b.quantity)),
                   !.out = getNutritionData(calc.resp, b.quantity, b.unit)]
  /\ UNCHANGED <<variant, apiKey, food_logs, nextId, reqs, lastResp,
               now, summary, lastRead, purge>>

\* the USDA handler's arithmetic: multiplier = quantity / 100
Calculate ==
  /\ variant = "usda"
  /\ ~calc.done
  /\ LET b == calc.body
         nutritionData == getNutritionDataUsda(apiKey, NoLookup, b.food_name.s)
     IN calc' = [calc EXCEPT
                   !.done = TRUE,
                   !.per100g = nutritionData,
                   !.multiplier = [num |-> ToNumber(b.quantity).n, den |-> 100],
                   !.out = calculatedNutrition(nutritionData, b.quantity)]
  /\ UNCHANGED <<variant, apiKey, food_logs, nextId, reqs, lastResp,
               now, summary, lastRead, purge>>

\* getNutritionData once more, on the same product and unit and twice the
\* quantity
NormalizeDouble ==
  /\ variant = "off"
  /\ calc.done
  /\ calc.twice = <<>>
  /\ LET b == calc.body
         q2 == Num(2 * b.quantity.n)
     IN calc' = [calc EXCEPT
                   !.multiplier2 = UnitMultiplier(b.unit.s, Qty(q2)),
                   !.twice = getNutritionData(calc.resp, q2, b.unit)]
  /\ UNCHANGED <<variant, apiKey, food_logs, nextId, reqs, lastResp,
               now, summary, lastRead, purge>>

NextNormalize == Normalize \/ Calculate \/ NormalizeDouble

SpecNormalize == InitNormalize /\ [][NextNormalize]_vars

(***************************************************************************)
(* Properties.                                                             *)
(***************************************************************************)
OffFields == {"calories", "protein", "carbs", "fat"}

Reduce(f) ==
  LET g == GCD(Abs(f.num), f.den)
  IN [num |-> f.num \div g, den |-> f.den \div g]

\* value * factor rounded to two decimals, ties away from zero
Rounded2(milli, f) ==
  LET p == ScaledFraction(milli, f.num, f.den, 10)
  IN 10 * RoundHalfAway(p.num, p.den)

LookupFailed(outcome) == outcome \in {"error", "timeout", "empty", "nodata"}

Responded == lastResp.status # 0

RowOf(id) == {i \in 1..Len(food_logs) : food_logs[i].id = id}

\* C1: in the Open Food Facts service a log request with valid fields whose
\* lookup failed (rejection, timeout, no products, no product with nutrient
\* data) always reaches the INSERT with null nutrient fields; when the
\* INSERT succeeds the answer is 201 and the row is stored with null
\* nutrients, and a non-2xx answer is due to the storage alone.
C1_LookupFailureStillLogged ==
  /\ \A r \in Slots :
       (variant = "off" /\ reqs[r].pc = "insert" /\ LookupFailed(reqs[r].lookup))
         => reqs[r].nutrition = NullNutrition
  /\ (variant = "off" /\ Responded /\ ~Invalid(lastResp.body)
        /\ LookupFailed(lastResp.lookup))
       => /\ lastResp.inserts = 1
          /\ lastResp.status = (IF lastResp.db = "ok" THEN 201 ELSE 500)
          /\ lastResp.db \in {"ok", "error"}
          /\ lastResp.db = "ok" =>
               /\ lastResp.nutrition = NullNutrition
               /\ \E i \in RowOf(lastResp.id) :
                    /\ food_logs[i].nutrition = NullNutrition
                    /\ food_logs[i].food_name = lastResp.body.food_name

C1_Witness ==
  /\ variant = "off"
  /\ lastResp.status = 201
  /\ lastResp.lookup = "timeout"
  /\ lastResp.nutrition = NullNutrition
  /\ RowOf(lastResp.id) # {}

BadQuantity(q) ==
  LET p == parseFloat(q)
  IN p.t # "num" \/ p.n <= 0

\* C2: a log request whose quantity is zero, negative or non-numeric is
\* answered 400 and makes no lookup call and no insert.
C2_BadQuantityRejected ==
  variant = "off" =>
    /\ \A r \in Slots :
         reqs[r].pc # "idle" => ~BadQuantity(reqs[r].body.quantity)
    /\ (Responded /\ BadQuantity(lastResp.body.quantity))
         => /\ lastResp.status = 400
            /\ lastResp.lookups = 0
            /\ lastResp.inserts = 0

MissingFields(body) ==
  {f \in {"food_name", "quantity", "unit"} : body[f] = Undefined}

\* C3: in the Open Food Facts service a log request with a missing
\* food_name, quantity or unit is answered 400 with the code
\* VALIDATION_ERROR and a field list that contains the missing fields; it
\* makes no lookup call and no insert, and never gets in flight.
C3_MissingFieldRejected ==
  variant = "off" =>
    /\ \A r \in Slots :
         reqs[r].pc # "idle" => MissingFields(reqs[r].body) = {}
    /\ \A i \in 1..Len(food_logs) :
         /\ food_logs[i].food_name # Undefined
         /\ food_logs[i].quantity # Undefined
         /\ food_logs[i].unit # Undefined
    /\ (Responded /\ MissingFields(lastResp.body) # {})
         => /\ lastResp.status = 400
            /\ lastResp.error = "VALIDATION_ERROR"
            /\ MissingFields(lastResp.body) \subseteq lastResp.fields
            /\ lastResp.lookups = 0
            /\ lastResp.inserts = 0
            /\ lastResp.db = "none"

C3_Witness ==
  /\ variant = "off"
  /\ lastResp.status = 400
  /\ MissingFields(lastResp.body) = {"unit"}
  /\ Len(food_logs) = 1

\* C4: every stored row has its four nutrient fields either all numbers or
\* all null.
C4_AllOrNothing ==
  variant = "off" =>
    \A i \in 1..Len(food_logs) :
      \/ \A f \in OffFields : food_logs[i].nutrition[f].t = "num"
      \/ \A f \in OffFields : food_logs[i].nutrition[f] = Null

CalcUnit == toLowerCase(calc.body.unit.s)
CalcQty == calc.body.quantity.n
Applied == Reduce(calc.multiplier)
Factor(num, den) == Reduce([num |-> num, den |-> den])

\* C5: for a unit token that contains "kg" or "kilogram" the scale factor is
\* quantity * 1000 / 100.
C5_KilogramFactor ==
  (calc.done /\ variant = "off"
     /\ (includes(CalcUnit, "kg") \/ includes(CalcUnit, "kilogram")))
    => Applied = Factor(CalcQty * 1000, 100)

\* C6: for the unit tokens "piece", "serving", "cup" and "slice" the scale
\* factor is the quantity itself; quantity 3 of "piece" against 89 kcal per
\* 100g yields 267.00 kcal.
C6_CountFactor ==
  (calc.done /\ variant = "off"
     /\ CalcUnit \in {"piece", "serving", "cup", "slice"})
    => /\ Applied = Factor(CalcQty, 1)
       /\ (CalcUnit = "piece" /\ CalcQty = 3 /\ calc.per100g.calories = Num(89000))
            => calc.out.calories = Num(267000)

GramUnits == {"g", "gram", "grams"}

\* C7 as stated: for unit "g" / "gram" the scale factor is quantity / 100,
\* and unit "g" with quantity 100 returns the per-100g vector unchanged.
C7_GramIdentity ==
  (calc.done /\ variant = "off" /\ CalcUnit \in GramUnits)
    => /\ Applied = Factor(CalcQty, 100)
       /\ (calc.body.unit.s = "g" /\ CalcQty = 100) => calc.out = calc.per100g

\* C7 amended: for unit "g" / "gram" the scale factor is quantity / 100, and
\* unit "g" with quantity 100 returns every value of a numeric per-100g
\* vector rounded to two decimals, ties away from zero.
C7_GramRounded ==
  (calc.done /\ variant = "off" /\ CalcUnit \in GramUnits)
    => /\ Applied = Factor(CalcQty, 100)
       /\ (calc.body.unit.s = "g" /\ CalcQty = 100)
            => \A f \in OffFields :
                 calc.out[f] = Num(10 * RoundHalfAway(calc.per100g[f].n, 10))

C7_Witness ==
  /\ calc.done
  /\ variant = "off"
  /\ calc.body.unit.s = "g"
  /\ CalcQty = 100
  /\ calc.per100g.protein = Num(1234)
  /\ calc.out.protein = Num(1230)

\* C8: the stored nutrient values are the per-100g values times the scale
\* factor, each rounded to two decimals, ties away from zero; banana,
\* quantity 120, unit "g" against {89, 1.1, 23, 0.3} gives 106.80, 1.32,
\* 27.60 and 0.36.
C8_RoundedToTwoDecimals ==
  calc.done =>
    /\ \A f \in OffFields :
         calc.out[f] = Num(Rounded2(calc.per100g[f].n, calc.multiplier))
    /\ (calc.body.unit.s = "g" /\ CalcQty = 120
          /\ calc.per100g.calories = Num(89000)
          /\ calc.per100g.protein = Num(1100)
          /\ calc.per100g.carbs = Num(23000)
          /\ calc.per100g.fat = Num(300))
         => /\ calc.out.calories = Num(106800)
            /\ calc.out.protein = Num(1320)
            /\ calc.out.carbs = Num(27600)
            /\ calc.out.fat = Num(360)

\* C9: for a unit token that contains "lb" or "pound" the scale factor is
\* quantity * 453.592 / 100, and for one that contains "oz" or "ounce" it
\* is quantity * 28.35 / 100, whatever the letter case.
C9_PoundOunceFactor ==
  (calc.done /\ variant = "off")
    => /\ (includes(CalcUnit, "lb") \/ includes(CalcUnit, "pound"))
            => Applied = Factor(CalcQty * 453592, 100000)
       /\ (includes(CalcUnit, "oz") \/ includes(CalcUnit, "ounce"))
            => Applied = Factor(CalcQty * 2835, 10000)

\* C10: for the unit tokens "l", "liter" and "litre" the scale factor is
\* quantity * 1000 / 100, for a token that contains "ml" it is
\* quantity / 100, and "slice" and "tablespoon" are not scaled as litres.
C10_LitreFactor ==
  (calc.done /\ variant = "off")
    => /\ CalcUnit \in {"l", "liter", "litre"}
            => Applied = Factor(CalcQty * 1000, 100)
       /\ includes(CalcUnit, "ml") => Applied = Factor(CalcQty, 100)
       /\ CalcUnit \in {"slice", "tablespoon"}
            => Applied # Factor(CalcQty * 1000, 100)
(***************************************************************************)
(* The resolver on its own: getNutritionData on search answers drawn from  *)
(* bounded lists of candidate products, for 100 g of the food.             *)
(***************************************************************************)
MaxCandidates == 2

\* a product that reports its energy in kilojoules only
KjOnly ==
  Product("Banana juice", TRUE,
          {KV("energy-kj_100g", Num(200000)), KV("proteins_100g", Num(500))})

\* a product with the generic energy field only
GenericOnly ==
  Product("Banana puree", TRUE,
          {KV("energy_100g", Num(372000)), KV("fat_100g", Num(300))})

\* a product with kcal and generic energy side by side
KcalAndGeneric ==
  Product("Banana yoghurt", TRUE,
          {KV("energy-kcal", Num(95000)), KV("energy", Num(397000)),
           KV("energy-kj", Num(397000))})

ResolveProducts ==
  {Banana, NoData, NoNutriments, Precise, KjOnly, GenericOnly, KcalAndGeneric}

CandidateLists == UNION {[1..n -> ResolveProducts] : n \in 0..MaxCandidates}

InitResolve ==
  /\ purge = NoPurge
  /\ now = Midnight1
  /\ summary = NoSummary
  /\ lastRead = NoRead
  /\ variant = "off"
  /\ apiKey = FALSE
  /\ food_logs = <<>>
  /\ nextId = 1
  /\ reqs = [r \in Slots |-> Idle]
  /\ lastResp = NoResp
  /\ calc \in
       {[NoCalc EXCEPT !.resp = resp,
                       !.body = Body(Str("banana"), Num(100), Str("g"))] :
          resp \in {Found(l) : l \in CandidateLists}
                     \cup {Rejected("error"), Rejected("timeout"), NoProducts}}

\* getNutritionData of the Open Food Facts service on a search answer
Resolve ==
  /\ variant = "off"
  /\ ~calc.done
  /\ LET b == calc.body
         i == IF calc.resp.kind = "ok" /\ calc.resp.hasProducts
              THEN SelectIndex(calc.resp.products) ELSE 0
     IN calc' = [calc EXCEPT
                   !.done = TRUE,
                   !.selected = i,
                   !.per100g =
                      IF i = 0 THEN <<>>
                      ELSE nutritionPer100g(calc.resp.products[i].nutriments),
                   !.multiplier = IF i = 0 THEN NoFraction
                                  ELSE UnitMultiplier(b.unit.s, Qty(b.quantity)),
                   !.out = getNutritionData(calc.resp, b.quantity, b.unit)]
  /\ UNCHANGED <<variant, apiKey, food_logs, nextId, reqs, lastResp,
               now, summary, lastRead, purge>>

NextResolve == Resolve

SpecResolve == InitResolve /\ [][NextResolve]_vars

Doubled == calc.done /\ variant = "off" /\ calc.twice # <<>>

\* C11 as stated: for every per-100g vector, quantity and mass unit the
\* result for twice the quantity is twice the result, element by element.
C11_Linear ==
  (Doubled /\ \E w \in {"g", "kg", "kilogram", "oz", "ounce", "lb", "pound"} :
                 includes(CalcUnit, w))
    => \A f \in OffFields : calc.twice[f].n = 2 * calc.out[f].n

\* C11 amended: for every unit the scale factor for twice the quantity is
\* twice the scale factor, and each element of the result for twice the
\* quantity is within 0.01 of twice the element of the result.
C11_LinearUpToRounding ==
  Doubled
    => /\ Reduce(calc.multiplier2)
            = Factor(2 * calc.multiplier.num, calc.multiplier.den)
       /\ \A f \in OffFields :
            Abs(calc.twice[f].n - 2 * calc.out[f].n) <= 10

C11_Witness ==
  /\ Doubled
  /\ calc.body.unit.s = "g"
  /\ CalcQty = 1
  /\ calc.per100g.fat = Num(300)
  /\ calc.out.fat = Num(0)
  /\ calc.twice.fat = Num(10)
HasData(p) == p.hasNutriments /\ p.nutriments # {}

Candidates == calc.resp.products

\* C12: the candidate selected is the first one, in the order of the search
\* answer, whose nutrient map is not empty, and the result is computed from
\* it; when no candidate has a non-empty map, or the search fails, the
\* nutrient fields are all null.
C12_FirstWithData ==
  calc.done =>
    /\ calc.selected \in 0..Len(Candidates)
    /\ calc.selected > 0 =>
         /\ HasData(Candidates[calc.selected])
         /\ \A j \in 1..(calc.selected - 1) : ~HasData(Candidates[j])
         /\ \A f \in OffFields : calc.out[f].t = "num"
         /\ Candidates[calc.selected] = Banana => calc.out.calories = Num(89000)
         /\ Candidates[calc.selected] = KjOnly => calc.out.protein = Num(500)
    /\ calc.selected = 0 =>
         /\ \A j \in 1..Len(Candidates) : ~HasData(Candidates[j])
         /\ calc.out = NullNutrition

C12_Witness ==
  /\ calc.done
  /\ calc.resp = Found(<<NoData, Banana>>)
  /\ calc.selected = 2
  /\ calc.out.calories = Num(89000)

HasKey(p, key) == \E kv \in p.nutriments : kv.k = key

KcalKeys == {"energy-kcal_100g", "energy-kcal"}
KjKeys == {"energy-kj_100g", "energy-kj"}
GenericKeys == {"energy_100g", "energy"}

\* the value of the first key of the list that the product carries
RECURSIVE FirstOf(_, _)
FirstOf(p, keys) ==
  IF keys = <<>> THEN Undefined
  ELSE IF HasKey(p, Head(keys)) THEN Get(p.nutriments, Head(keys))
  ELSE FirstOf(p, Tail(keys))

\* kilojoules to kilocalories, 1 kcal = 4.184 kJ, to two decimals
KjToKcal(kj) == Rounded2(kj, [num |-> 1000, den |-> 4184])

Selected == Candidates[calc.selected]

\* C13: when the selected candidate carries a kJ-labelled energy field and
\* no kcal field, the calories per 100g are that value divided by 4.184
\* (200 kJ gives 47.80 kcal).
C13_KjConverted ==
  (calc.done /\ calc.selected > 0
     /\ \E k \in KjKeys : HasKey(Selected, k)
     /\ \A c \in KcalKeys : ~HasKey(Selected, c))
    => /\ calc.out.calories
            = Num(KjToKcal(FirstOf(Selected, <<"energy-kj_100g", "energy-kj">>).n))
       /\ Selected = KjOnly => calc.out.calories = Num(47800)

\* C14: energy is taken from the aliases in priority order: a kcal-labelled
\* field is used as it is, a generic energy field without a kcal sibling is
\* divided by 4.184, and the calories are zero only if no energy field is
\* present.
C14_EnergyAliases ==
  (calc.done /\ calc.selected > 0)
    => /\ (\E k \in KcalKeys : HasKey(Selected, k))
            => calc.per100g.calories
                 = FirstOf(Selected, <<"energy-kcal_100g", "energy-kcal">>)
       /\ ((\A c \in KcalKeys : ~HasKey(Selected, c))
             /\ (\E g \in GenericKeys : HasKey(Selected, g)))
            => calc.out.calories
                 = Num(KjToKcal(FirstOf(Selected, <<"energy_100g", "energy">>).n))
       /\ calc.out.calories = Num(0)
            => \A k \in KcalKeys \cup GenericKeys : ~HasKey(Selected, k)
(***************************************************************************)
(* SQLite as the read handlers use it.                                     *)
(***************************************************************************)
\* a value as a REAL column holds it: null, undefined and NaN are NULL
Stored(v) == IF v.t = "num" THEN v ELSE Null

StoredVec(nutrition) == [f \in DOMAIN nutrition |-> Stored(nutrition[f])]

\* a SUM in which one NULL makes the whole sum NULL
RECURSIVE SqlSumStrict(_, _)
SqlSumStrict(rows, f) ==
  IF rows = <<>> THEN Null
  ELSE LET h == Stored(Head(rows).nutrition[f])
       IN IF Len(rows) = 1 \/ h.t # "num" THEN h
          ELSE LET t == SqlSumStrict(Tail(rows), f)
               IN IF t.t # "num" THEN t ELSE Num(h.n + t.n)

\* SUM(f): NULL values are skipped; NULL when no row has a value
RECURSIVE SqlSum(_, _)
SqlSum(rows, f) ==
  IF rows = <<>> THEN Null
  ELSE LET h == Stored(Head(rows).nutrition[f])
           t == SqlSum(Tail(rows), f)
       IN IF h.t # "num" THEN t
          ELSE IF t.t # "num" THEN h
          ELSE Num(h.n + t.n)

\* ORDER BY timestamp DESC: every order of the rows that sorts the
\* timestamps; rows of one second come in an order SQL leaves open
OrderByTimestampDesc(rows) ==
  {[i \in 1..Len(rows) |-> rows[p[i]]] : p \in Permutations(1..Len(rows))}
    \cap {l \in [1..Len(rows) -> {rows[i] : i \in 1..Len(rows)}] :
            \A i, j \in 1..Len(rows) :
              i < j => l[i].timestamp >= l[j].timestamp}

\* LIMIT n
Limit(rows, n) == SubSeq(rows, 1, IF n < Len(rows) THEN n ELSE Len(rows))

(***************************************************************************)
(* The clock.                                                              *)
(***************************************************************************)
MaxSec == 1

\* a second passes
Tick ==
  /\ now.sec < MaxSec
  /\ now' = [now EXCEPT !.sec = @ + 1]
  /\ UNCHANGED <<variant, apiKey, food_logs, nextId, reqs, lastResp, calc,
                 summary, lastRead, purge>>

\* a second passes and the UTC date changes
NextDay ==
  /\ now.sec < MaxSec
  /\ now' = [day |-> now.day + 1, sec |-> now.sec + 1]
  /\ UNCHANGED <<variant, apiKey, food_logs, nextId, reqs, lastResp, calc,
                 summary, lastRead, purge>>

(***************************************************************************)
(* GET /api/daily-summary.                                                 *)
(***************************************************************************)
SummaryColumns ==
  IF variant = "off" THEN {"calories", "protein", "carbs", "fat"}
  ELSE UsdaFields

Query(date, user, limit) == [date |-> date, user_id |-> user, limit |-> limit]

\* const { user_id = 1 } = req.query
UserOf(query) ==
  IF query.user_id.t = "undefined" THEN Num(1) ELSE query.user_id

ServerError ==
  [NoRead EXCEPT !.status = 500]

\* Math.round((total || 0) * 10) / 10
RoundTotal(total) == Num(Round1(Or(total, Num(0)).n, 1, 1))

\* The handler up to the answer of its aggregate query.  The USDA service
\* answers from the callback of that query; the Open Food Facts service
\* goes on to its list query.
SummaryBegin(query, ok) ==
  /\ summary.pc = "idle"
  /\ LET today == now.day
         targetDate == IF variant = "off" THEN Num(today)
                       ELSE Or(query.date, Num(today))
         rows == SelectSeq(food_logs,
                   LAMBDA r : /\ r.date = targetDate.n
                              /\ variant = "usda" => r.user_id = UserOf(query))
         totals == [f \in SummaryColumns |-> SqlSum(rows, f)]
     IN IF ~ok
        THEN /\ lastRead' = [ServerError EXCEPT !.kind = "summary",
                                                !.query = query]
             /\ UNCHANGED summary
        ELSE IF variant = "off"
        THEN /\ summary' =
                  [pc |-> "respond", query |-> query, today |-> today,
                   target |-> targetDate.n, totals |-> totals,
                   count |-> Len(rows), matched |-> rows, seen |-> food_logs]
             /\ UNCHANGED lastRead
        ELSE /\ lastRead' =
                  [NoRead EXCEPT
                     !.kind = "summary", !.status = 200, !.query = query,
                     !.today = today, !.seen = food_logs, !.matched = rows,
                     !.table = food_logs,
                     !.totals = [f \in SummaryColumns |-> RoundTotal(totals[f])],
                     !.count = Or(Num(Len(rows)), Num(0)).n]
             /\ UNCHANGED summary
  /\ UNCHANGED <<variant, apiKey, food_logs, nextId, reqs, lastResp, calc, now,
                 purge>>

\* SELECT food_name as name, quantity, unit, calories, protein, carbs, fat;
\* id is not selected: it is kept to tell the entries apart
Item(r) ==
  [id |-> r.id, name |-> r.food_name, quantity |-> r.quantity,
   unit |-> r.unit, nutrition |-> StoredVec(r.nutrition)]

\* the rest of the Open Food Facts handler: the list query and the response
SummaryResponds(ok) ==
  /\ summary.pc = "respond"
  /\ IF ok
     THEN \E foodItems \in OrderByTimestampDesc(
                SelectSeq(food_logs, LAMBDA r : r.date = summary.target)) :
            lastRead' =
              [NoRead EXCEPT !.kind = "summary", !.status = 200,
                             !.query = summary.query,
                             !.today = summary.today,
                             !.seen = summary.seen,
                             !.matched = summary.matched,
                             !.table = food_logs,
                             !.totals = summary.totals,
                             !.count = summary.count,
                             !.hasList = TRUE,
                             !.items = [i \in 1..Len(foodItems) |->
                                          Item(foodItems[i])]]
     ELSE lastRead' = [ServerError EXCEPT !.kind = "summary",
                                          !.query = summary.query]
  /\ summary' = NoSummary
  /\ UNCHANGED <<variant, apiKey, food_logs, nextId, reqs, lastResp, calc, now,
                 purge>>

(***************************************************************************)
(* GET /api/food-log.                                                      *)
(***************************************************************************)
OffListLimit == 100
UsdaDefaultLimit == 50

\* const { limit = 50 } = req.query; parseInt(limit)
LimitOf(query) ==
  IF query.limit.t = "undefined" THEN UsdaDefaultLimit ELSE query.limit.n

StoredRow(r) == [r EXCEPT !.nutrition = StoredVec(r.nutrition)]

GetFoodLog(query, ok) ==
  /\ LET rows == IF variant = "off" THEN food_logs
                 ELSE SelectSeq(food_logs,
                        LAMBDA r : /\ r.user_id = UserOf(query)
                                   /\ Truthy(query.date) => r.date = query.date.n)
         n == IF variant = "off" THEN OffListLimit ELSE LimitOf(query)
     IN IF ok
        THEN \E sorted \in OrderByTimestampDesc(rows) :
               lastRead' =
                 [NoRead EXCEPT !.kind = "list", !.status = 200,
                                !.query = query, !.today = now.day,
                                !.count = Len(Limit(sorted, n)),
                                !.hasList = TRUE,
                                !.items = [i \in 1..Len(Limit(sorted, n)) |->
                                             StoredRow(sorted[i])],
                                !.seen = food_logs, !.matched = rows,
                                !.table = food_logs]
        ELSE lastRead' = [ServerError EXCEPT !.kind = "list", !.query = query]
  /\ UNCHANGED <<variant, apiKey, food_logs, nextId, reqs, lastResp, calc, now,
                 summary, purge>>

(***************************************************************************)
(* GET /health (USDA service: GET /api/health).                            *)
(***************************************************************************)
\* what the probe of the search API ends in
Probes == {"ok", "http_error", "network_error", "timeout"}

\* offStatus after the try/catch around axios.get
offStatus(probe) ==
  CASE probe = "ok" ->
         [reachable |-> TRUE, ok |-> TRUE, status |-> Num(200), error |-> Null]
    [] probe = "http_error" ->
         [reachable |-> TRUE, ok |-> FALSE, status |-> Num(503),
          error |-> Str("Request failed with status code 503")]
    [] probe = "network_error" ->
         [reachable |-> FALSE, ok |-> FALSE, status |-> Null,
          error |-> Str("getaddrinfo ENOTFOUND world.openfoodfacts.org")]
    [] OTHER ->
         [reachable |-> FALSE, ok |-> FALSE, status |-> Null,
          error |-> Str("timeout of 4000ms exceeded")]

\* a health report whose database check is skipped when the probe fails
HealthDataCoupled(probe, dbUp) ==
  [server |-> "ok",
   db |-> IF dbUp /\ offStatus(probe).reachable THEN "ok" ELSE "error",
   openFoodFacts |-> offStatus(probe)]

\* the data of the health response
HealthData(probe, dbUp) ==
  [server |-> "ok", db |-> IF dbUp THEN "ok" ELSE "error",
   openFoodFacts |-> offStatus(probe)]

\* probe and dbUp are kept with the response to tell the cases apart
Health(probe, dbUp) ==
  /\ lastRead' =
       [NoRead EXCEPT !.kind = "health", !.status = 200,
                      !.health =
                         IF variant = "off"
                         THEN [data |-> HealthData(probe, dbUp),
                               probe |-> probe, dbUp |-> dbUp]
                         ELSE [data |-> [status |-> "OK"],
                               probe |-> probe, dbUp |-> dbUp]]
  /\ UNCHANGED <<variant, apiKey, food_logs, nextId, reqs, lastResp, calc, now,
                 summary, purge>>

(***************************************************************************)
(* The service with its read handlers: one POST at a time, a clock that    *)
(* runs, and the GET requests.                                             *)
(***************************************************************************)
\* a lookup answer with 100 kcal per 100 g
Cracker ==
  Product("Cracker", TRUE,
          {KV("energy-kcal_100g", Num(100000)), KV("proteins_100g", Num(2500))})

ReadBodies ==
  {BodyFor(Str("banana"), Num(100), Str("g"),
           IF variant = "off" THEN Undefined ELSE Num(2))}

ReadResponses ==
  IF variant = "off" THEN {Rejected("error"), Found(<<Cracker>>)}
  ELSE {[kind |-> "ok", foods |-> <<UsdaBanana>>]}

\* the Open Food Facts handlers never read req.query: one query stands for
\* all of them
SummaryQueries ==
  {Query(Num(1), Num(2), Undefined)}
    \cup (IF variant = "off" THEN {}
          ELSE {Query(Undefined, Undefined, Undefined)})

ListQueries ==
  {Query(Num(1), Undefined, Num(1))}
    \cup (IF variant = "off" THEN {}
          ELSE {Query(Undefined, Undefined, Undefined)})

InitRead ==
  /\ purge = NoPurge
  /\ variant \in {"off", "usda"}
  /\ apiKey = (variant = "usda")
  /\ food_logs = <<>>
  /\ nextId = 1
  /\ reqs = [r \in Slots |-> Idle]
  /\ lastResp = NoResp
  /\ calc = NoCalc
  /\ now = Midnight1
  /\ summary = NoSummary
  /\ lastRead = NoRead

NextRead ==
  \/ \E body \in ReadBodies : PostFoodLog(1, body)
  \/ \E resp \in ReadResponses : LookupSettles(1, resp)
  \/ InsertCompletes(1, TRUE)
  \/ Tick
  \/ NextDay
  \/ \E query \in SummaryQueries, ok \in BOOLEAN : SummaryBegin(query, ok)
  \/ \E ok \in BOOLEAN : SummaryResponds(ok)
  \/ \E query \in ListQueries, ok \in BOOLEAN : GetFoodLog(query, ok)
  \/ \E probe \in Probes, dbUp \in BOOLEAN : Health(probe, dbUp)

SpecRead == InitRead /\ [][NextRead]_vars

SummaryRead == lastRead.kind = "summary" /\ lastRead.status = 200

NullEntry(r) == \A f \in DOMAIN r.nutrition : Stored(r.nutrition[f]) = Null

RECURSIVE PlainSum(_, _)
PlainSum(rows, f) ==
  IF rows = <<>> THEN 0
  ELSE Head(rows).nutrition[f].n + PlainSum(Tail(rows), f)

Valued(rows) == SelectSeq(rows, LAMBDA r : ~NullEntry(r))

\* C15: in a daily summary of the Open Food Facts service an entry whose
\* nutrient fields are null adds nothing to any total (each total is the sum
\* over the other entries) and is counted: the count is the number of all
\* entries of the date; one null entry and one entry of 100 kcal give total
\* calories 100 and count 2.
C15_NullCountsButAddsZero ==
  (SummaryRead /\ variant = "off")
    => /\ lastRead.count = Len(lastRead.matched)
       /\ Valued(lastRead.matched) # <<>> =>
            \A f \in OffFields :
              lastRead.totals[f] = Num(PlainSum(Valued(lastRead.matched), f))
       /\ (/\ Len(lastRead.matched) = 2
           /\ Len(Valued(lastRead.matched)) = 1
           /\ Valued(lastRead.matched)[1].nutrition.calories = Num(100000))
            => /\ lastRead.totals.calories = Num(100000)
               /\ lastRead.count = 2

C15_Witness ==
  /\ SummaryRead /\ variant = "off"
  /\ Len(lastRead.matched) = 2
  /\ NullEntry(lastRead.matched[1])
  /\ lastRead.matched[2].nutrition.calories = Num(100000)
  /\ lastRead.totals.calories = Num(100000)
  /\ lastRead.count = 2

\* C16: a daily summary of a date without entries is a success whose totals
\* are all zero, whose count is 0 and whose entry list is present and
\* empty; the totals are zero as well when every entry of the date has null
\* nutrients.
C16_EmptyDayIsZero ==
  (lastRead.kind = "summary" /\ lastRead.status # 500
     /\ Valued(lastRead.matched) = <<>>)
    => /\ lastRead.status = 200
       /\ \A f \in DOMAIN lastRead.totals : lastRead.totals[f] = Num(0)
       /\ lastRead.matched = lastRead.table =>
            /\ lastRead.hasList
            /\ Len(lastRead.items) = Len(lastRead.matched)
       /\ lastRead.matched = <<>> => lastRead.count = 0

\* the date and the user a summary was asked for
WantedDate ==
  IF lastRead.query.date.t = "undefined" THEN lastRead.today
  ELSE lastRead.query.date.n

Wanted(r) ==
  /\ r.date = WantedDate
  /\ lastRead.query.user_id.t # "undefined" => r.user_id = lastRead.query.user_id

Ids(rows) == {rows[i].id : i \in 1..Len(rows)}

\* C17: the daily summary covers exactly the entries whose date is the
\* requested date (the date of the server clock when none is given) and,
\* when a user is given, whose user matches: totals, count and list are
\* those of these entries and of no others.
C17_ExactlyRequestedEntries ==
  SummaryRead
    => /\ lastRead.matched = SelectSeq(lastRead.seen, Wanted)
       /\ lastRead.count = Len(SelectSeq(lastRead.seen, Wanted))
       /\ Ids(lastRead.items) \subseteq Ids(SelectSeq(lastRead.table, Wanted))

\* C18: the entry lists of the daily summary and of GET /api/food-log are
\* most recent first: an entry created later comes earlier in the list,
\* also when both were created within one second; GET /api/food-log
\* returns the most recent entries and never more than the limit.
C18_MostRecentFirst ==
  (lastRead.status = 200 /\ lastRead.hasList)
    => /\ \A i, j \in 1..Len(lastRead.items) :
            i < j => lastRead.items[i].id > lastRead.items[j].id
       /\ lastRead.kind = "list" =>
            /\ lastRead.query.limit.t = "num" =>
                 Len(lastRead.items) <= lastRead.query.limit.n
            /\ \A i \in 1..Len(lastRead.items) :
                 \A r \in Ids(lastRead.matched) \ Ids(lastRead.items) :
                   r < lastRead.items[i].id

\* C19: every entry written through POST /api/food-log is in the entry
\* list of a daily summary read for its date, with the nutrient values that
\* were stored and returned when it was created.
C19_RoundTrip ==
  SummaryRead
    => \A k \in 1..Len(lastRead.table) :
         lastRead.table[k].date = WantedDate
           => \E i \in 1..Len(lastRead.items) :
                /\ lastRead.items[i].id = lastRead.table[k].id
                /\ lastRead.items[i].nutrition = lastRead.table[k].nutrition
                /\ (lastResp.status = 201 /\ lastResp.id = lastRead.table[k].id)
                     => lastRead.items[i].nutrition = lastResp.nutrition

HealthRead == lastRead.kind = "health" /\ variant = "off"

\* C20: GET /health always answers 200 with server ok; the reported storage
\* status is a function of the storage check alone, the reported lookup
\* status a function of the lookup probe alone, for every combination of
\* the two.
C20_HealthIndependent ==
  HealthRead
    => /\ lastRead.status = 200
       /\ lastRead.health.data.server = "ok"
       /\ lastRead.health.data.db
            = (IF lastRead.health.dbUp THEN "ok" ELSE "error")
       /\ lastRead.health.data.openFoodFacts.reachable
            = (lastRead.health.probe \in {"ok", "http_error"})
       /\ lastRead.health.data.openFoodFacts.ok = (lastRead.health.probe = "ok")

C20_Witness ==
  /\ HealthRead
  /\ lastRead.health.probe = "timeout"
  /\ lastRead.health.dbUp
  /\ lastRead.health.data.db = "ok"
  /\ ~lastRead.health.data.openFoodFacts.reachable
(***************************************************************************)
(* Clearing the log: clearFoodLogs, POST /api/clear-logs and the job that  *)
(* the scheduler starts every midnight (UTC), on the database all the      *)
(* services open.                                                          *)
(***************************************************************************)
MaxCronRuns == 2

\* this.changes of a DELETE that counts an empty table as one row
changesAtLeastOne(rows) == IF Len(rows) = 0 THEN 1 ELSE Len(rows)

\* this.changes of DELETE FROM food_logs
changes(rows) == Len(rows)

\* a table without AUTOINCREMENT starts its ids again when it is empty
RestartSequence(n) == 1

\* id INTEGER PRIMARY KEY AUTOINCREMENT: a DELETE leaves the sequence alone
KeepSequence(n) == n

\* POST /api/clear-logs up to its await
PostClearLogs ==
  /\ purge.manual = 0
  /\ purge' = [purge EXCEPT !.manual = 1]
  /\ UNCHANGED <<variant, apiKey, food_logs, nextId, reqs, lastResp, calc, now,
                 summary, lastRead>>

\* cron.schedule('0 0 * * *'): the job calls clearFoodLogs, whether or
\* not an earlier run is still waiting for its DELETE
CronFires ==
  /\ purge.cron < MaxCronRuns
  /\ purge' = [purge EXCEPT !.cron = @ + 1]
  /\ UNCHANGED <<variant, apiKey, food_logs, nextId, reqs, lastResp, calc, now,
                 summary, lastRead>>

\* The DELETE of a run completes; a manual run answers 200 with rowsDeleted,
\* or 500; a run of the scheduler only writes to the console.
DeleteSettles(by, ok) ==
  /\ purge[by] > 0
  /\ IF ok
     THEN /\ food_logs' = <<>>
          /\ nextId' = KeepSequence(nextId)
          /\ purge' = [purge EXCEPT ![by] = @ - 1, !.by = by,
                                    !.status = 200,
                                    !.rowsDeleted = changes(food_logs)]
     ELSE /\ UNCHANGED <<food_logs, nextId>>
          /\ purge' = [purge EXCEPT ![by] = @ - 1, !.by = by,
                                    !.status = 500, !.rowsDeleted = 0]
  /\ UNCHANGED <<variant, apiKey, reqs, lastResp, calc, now, summary, lastRead>>

NextPurge ==
  \/ \E r \in Slots, body \in ReadBodies : PostFoodLog(r, body)
  \/ \E r \in Slots, resp \in ReadResponses : LookupSettles(r, resp)
  \/ \E r \in Slots, ok \in BOOLEAN : InsertCompletes(r, ok)
  \/ PostClearLogs
  \/ CronFires
  \/ \E by \in {"manual", "cron"}, ok \in BOOLEAN : DeleteSettles(by, ok)

SpecPurge == InitRead /\ [][NextPurge]_vars

\* the Open Food Facts service with the clearing of the log: one log
\* request at a time and the read requests, with a database that answers
InitStore == InitRead /\ variant = "off"

NextStore ==
  \/ \E body \in ReadBodies : PostFoodLog(1, body)
  \/ \E resp \in ReadResponses : LookupSettles(1, resp)
  \/ InsertCompletes(1, TRUE)
  \/ PostClearLogs
  \/ CronFires
  \/ \E by \in {"manual", "cron"} : DeleteSettles(by, TRUE)
  \/ \E query \in SummaryQueries : SummaryBegin(query, TRUE)
  \/ SummaryResponds(TRUE)
  \/ \E query \in ListQueries : GetFoodLog(query, TRUE)
  \/ \E dbUp \in BOOLEAN : Health("ok", dbUp)

SpecStore == InitStore /\ [][NextStore]_vars

\* a run of clearFoodLogs ends in this step, having deleted
Cleared(by) ==
  /\ purge'[by] < purge[by]
  /\ purge'.status = 200

\* C22: a POST /api/clear-logs that succeeds deletes every entry and
\* returns the number of entries it deleted; on an empty log it returns 0
\* and leaves the state as it was, so a second clear with no log request in
\* between changes nothing.
C22_ClearReturnsCount ==
  [][Cleared("manual")
       => /\ food_logs' = <<>>
          /\ purge'.rowsDeleted = Len(food_logs)
          /\ nextId' = nextId
          /\ food_logs = <<>>
               => /\ purge'.rowsDeleted = 0
                  /\ food_logs' = food_logs]_vars

\* a clear that found nothing to delete after entries had been written and
\* cleared
C22_Witness ==
  /\ purge.by = "manual" /\ purge.status = 200
  /\ purge.rowsDeleted = 0
  /\ nextId > 1
  /\ food_logs = <<>>
  /\ InFlight = {}

Logged == lastResp' # lastResp /\ lastResp'.status = 201

\* C27: an entry, once written, keeps its id, timestamp, date and every
\* other field for as long as it exists: a step either leaves every entry
\* in the table as it was (log, list, summary and health requests do) or is
\* the end of a run of clearFoodLogs that empties the table.
C27_AppendOnly ==
  [][\/ /\ Len(food_logs') >= Len(food_logs)
        /\ \A i \in 1..Len(food_logs) : food_logs'[i] = food_logs[i]
     \/ /\ \E by \in {"manual", "cron"} : Cleared(by)
        /\ food_logs' = <<>>]_vars

\* a list request answered after a purge and a new entry
C27_Witness ==
  /\ lastRead.kind = "list" /\ lastRead.status = 200
  /\ purge.status = 200 /\ purge.rowsDeleted = 1
  /\ Len(food_logs) = 1
  /\ food_logs[1].id = 2
  /\ lastRead.table = food_logs

C28_PurgeNeverOverlaps == purge.cron <= 1

\* C21: in the Open Food Facts service a failed INSERT is answered with a
\* 5xx and writes no entry, and a response to a log request that is not 2xx
\* comes either from a failed validation (400, nothing looked up or
\* inserted) or from a failed INSERT (5xx).
C21_OnlyValidationOrStorage ==
  [][(variant = "off" /\ lastResp' # lastResp)
       => /\ lastResp'.db = "error"
               => /\ lastResp'.status \in 500..599
                  /\ food_logs' = food_logs
          /\ lastResp'.status \notin 200..299
               => \/ /\ lastResp'.status = 400
                     /\ Invalid(lastResp'.body)
                     /\ lastResp'.lookups = 0
                     /\ lastResp'.inserts = 0
                     /\ food_logs' = food_logs
                  \/ /\ lastResp'.status \in 500..599
                     /\ lastResp'.db = "error"]_vars

C21_Witness ==
  /\ variant = "off"
  /\ lastResp.status = 500
  /\ lastResp.db = "error"
  /\ lastResp.lookup = "found"
  /\ lastResp.inserts = 1
  /\ food_logs = <<>>
(***************************************************************************)
(* The router on a request that no route of the service matches.           *)
(***************************************************************************)
Methods == {"GET", "POST", "PUT", "DELETE"}

Paths ==
  {"/health", "/api/health", "/api/food-log", "/api/daily-summary",
   "/api/chat", "/api/unknown"}

\* app.get and app.post of each service
Routes ==
  IF variant = "off"
  THEN {<<"GET", "/health">>, <<"POST", "/api/food-log">>,
        <<"GET", "/api/food-log">>, <<"GET", "/api/daily-summary">>,
        <<"POST", "/api/chat">>}
  ELSE {<<"POST", "/api/food-log">>, <<"GET", "/api/daily-summary">>,
        <<"GET", "/api/food-log">>, <<"GET", "/api/health">>}

\* What answers a request that matched no route: app.get('*') sends
\* index.html (res.sendFile fails with a 404 error when the build is not
\* there, which goes to the error handler), any other method reaches the
\* 404 handler.  The USDA service has the catch-all in production only.
FallThrough(method, production, build) ==
  IF variant = "off"
  THEN IF method = "GET"
       THEN IF build
            THEN [status |-> 200, error |-> "", file |-> "index.html"]
            ELSE [status |-> 404, error |-> "INTERNAL_ERROR", file |-> ""]
       ELSE [status |-> 404, error |-> "NOT_FOUND", file |-> ""]
  ELSE IF method = "GET" /\ production
       THEN IF build
            THEN [status |-> 200, error |-> "", file |-> "index.html"]
            ELSE [status |-> 500, error |-> "Internal server error",
                  file |-> ""]
       ELSE [status |-> 404, error |-> "Route not found", file |-> ""]

\* method and path are kept with the response
UnknownRoute(method, path, production, build) ==
  /\ <<method, path>> \notin Routes
  /\ LET answer == FallThrough(method, production, build)
     IN lastRead' =
          [NoRead EXCEPT !.kind = "route", !.status = answer.status,
                         !.route = [method |-> method, path |-> path,
                                    production |-> production,
                                    build |-> build, answer |-> answer]]
  /\ UNCHANGED <<variant, apiKey, food_logs, nextId, reqs, lastResp, calc, now,
                 summary, purge>>

NextRoute ==
  \E method \in Methods, path \in Paths, production \in BOOLEAN,
     build \in BOOLEAN :
    UnknownRoute(method, path, production, build)

SpecRoute == InitRead /\ [][NextRoute]_vars

\* C24: a request to a route the service does not define is answered with
\* 404 and the not-found error, whatever its method.
C24_UnknownRouteIs404 ==
  lastRead.kind = "route"
    => /\ lastRead.status = 404
       /\ lastRead.route.answer.error \in {"NOT_FOUND", "Route not found"}
       /\ lastRead.route.answer.file = ""

\* C23: the food_name stored with an entry of the Open Food Facts service
\* is the name the lookup resolved the food to when the lookup succeeded,
\* and the name the user sent when it failed.
C23_ResolvedNameStored ==
  (variant = "off" /\ lastResp.status = 201)
    => \A i \in RowOf(lastResp.id) :
         food_logs[i].food_name
           = (IF lastResp.lookup = "found" THEN lastResp.resolved
              ELSE lastResp.body.food_name)

\* C26: every entry in the table has a quantity that is a positive number
\* and nutrient fields that are each null or a number that is not negative.
C26_EntriesWellFormed ==
  \A i \in 1..Len(food_logs) :
    /\ food_logs[i].quantity.t = "num"
    /\ food_logs[i].quantity.n > 0
    /\ \A f \in DOMAIN food_logs[i].nutrition :
         LET v == Stored(food_logs[i].nutrition[f])
         IN v = Null \/ v.n >= 0
(***************************************************************************)
(* Log requests with a search API that may never answer.  The Open Food    *)
(* Facts service gives axios a timeout of 10000 ms, after which the search *)
(* is rejected; the USDA service sets no timeout.  The database answers    *)
(* every statement.                                                        *)
(***************************************************************************)
\* timeout: 10000 runs out
LookupTimesOut(r) ==
  /\ variant = "off"
  /\ LookupSettles(r, Rejected("timeout"))

NextLog ==
  \/ \E body \in ReadBodies : PostFoodLog(1, body)
  \/ \E resp \in ReadResponses : LookupSettles(1, resp)
  \/ LookupTimesOut(1)
  \/ \E ok \in BOOLEAN : InsertCompletes(1, ok)
  \/ Tick
  \/ NextDay

SpecLog ==
  /\ InitRead
  /\ [][NextLog]_vars
  /\ WF_vars(LookupTimesOut(1))
  /\ WF_vars(\E ok \in BOOLEAN : InsertCompletes(1, ok))

\* C25: every log request is answered in the end, also when the search API
\* never answers.
C25_EventuallyResponds ==
  \A r \in Slots : (reqs[r].pc # "idle") ~> (reqs[r].pc = "idle")

\* the sum of the values of column f that are not null
RECURSIVE SumOfList(_, _)
SumOfList(items, f) ==
  IF items = <<>> THEN 0
  ELSE (IF Head(items).nutrition[f].t = "num" THEN Head(items).nutrition[f].n
        ELSE 0) + SumOfList(Tail(items), f)

\* C29: a daily summary of the Open Food Facts service agrees with itself,
\* whatever log requests run beside it: the count is the length of the list
\* it returns and each total (null read as zero) is the sum of the values in
\* that list.
C29_SummaryConsistent ==
  (SummaryRead /\ variant = "off")
    => /\ lastRead.count = Len(lastRead.items)
       /\ \A f \in OffFields :
            Or(lastRead.totals[f], Num(0)).n = SumOfList(lastRead.items, f)
====
